---- MODULE Spec2Model ----
(***************************************************************************)
(* A model of UAgentEClient (examples/unreal-client): the game-loop side   *)
(* (OnGameTick -> SendTick -> BuildStateJson), the health probe            *)
(* (CheckHealth) and the HTTP completion callback (HandleTickResponse).    *)
(*                                                                         *)
(* Everything runs on the game thread: OnGameTick is called by the game    *)
(* loop and the HTTP module delivers completion callbacks from its own     *)
(* tick on the same thread, so each call is one atomic step.  Requests are *)
(* fire-and-forget; the HTTP module may complete outstanding requests in   *)
(* any order, or never.                                                    *)
(*                                                                         *)
(* JSON numbers are doubles.  The model writes a JSON number as an integer *)
(* count of halves (3 stands for 1.5), which is enough to make the two     *)
(* numeric conversions of the code (double -> int32, double -> float)      *)
(* something other than the identity.  An object field is an option: {}    *)
(* when the field is missing, {v} when it is present with value v.         *)
(***************************************************************************)
EXTENDS Integers, Sequences, FiniteSets, TLC

\* ------------------------------------------------------------------ bounds
\* OnGameTick is called at most MaxTicks times.
MaxTicks == 4
\* Spec configures TickInterval in 1..MaxInterval.
MaxInterval == 3
\* At most MaxHealthChecks GET /health requests are outstanding at once.
MaxHealthChecks == 1
\* Spec: "adjustments" and "alerts" of one response hold at most SysElems elements together.
SysElems == 0
\* SpecDispatch: they hold at most MaxElems elements together.
MaxElems == 2

\* --------------------------------------------------------------- constants
\* int32 LastHealth = 100;
InitialHealth == 100

VARIABLES
    TickInterval,    \* UPROPERTY int32 TickInterval (configuration)
    TickCounter,     \* int32 TickCounter
    LastHealth,      \* int32 LastHealth
    sentTicks,       \* the POST /tick requests sent so far: the "tick" value of each body, in order
    pending,         \* the POST /tick requests whose completion callback has not run yet
    healthInFlight,  \* the GET /health requests whose completion lambda has not run yet
    lastCall,        \* the arguments of the most recent HandleTickResponse call (req = 0: none yet)
    broadcasts,      \* the delegate broadcasts made by the most recent HandleTickResponse call, in order
    healthReq        \* the request whose response last assigned LastHealth (0: none yet)

vars == <<TickInterval, TickCounter, LastHealth, sentTicks, pending,
          healthInFlight, lastCall, broadcasts, healthReq>>

\* ------------------------------------------------------------ JSON payloads
Absent == {}

\* An array element that is not a JSON object (a number, a string, null).
NonObjectAdjustment == [isObject |-> FALSE, key |-> Absent, value |-> Absent]
\* {"key": "fee", "value": 16777217}: a value that single precision cannot hold.
FeeAdjustment == [isObject |-> TRUE, key |-> {"fee"}, value |-> {33554434}]
\* {}: an object with neither field.
EmptyAdjustment == [isObject |-> TRUE, key |-> Absent, value |-> Absent]
AdjustmentElements == {NonObjectAdjustment, FeeAdjustment, EmptyAdjustment}

NonObjectAlert == [isObject |-> FALSE, principle |-> Absent, name |-> Absent, severity |-> Absent]
\* {"principle": "P1", "name": "Inflation", "severity": 2.5}
InflationAlert == [isObject |-> TRUE, principle |-> {"P1"}, name |-> {"Inflation"}, severity |-> {5}]
EmptyAlert == [isObject |-> TRUE, principle |-> Absent, name |-> Absent, severity |-> Absent]
AlertElements == {NonObjectAlert, InflationAlert, EmptyAlert}

\* "health" missing, 42.5, 150.
HealthFields == {Absent, {85}, {300}}

SeqsUpTo(S, n) == UNION {[1..k -> S] : k \in 0..n}

\* An array field: missing, or present with up to n elements.
ArrayFields(S, n) == {Absent} \cup {{a} : a \in SeqsUpTo(S, n)}

TheValue(opt) == CHOOSE v \in opt : TRUE

ArrayLen(opt) == IF opt = Absent THEN 0 ELSE Len(TheValue(opt))

\* The bodies that parse as a JSON object, with at most n array elements in all.
Bodies(n) ==
    {b \in [parses : {TRUE}, health : HealthFields,
            adjustments : ArrayFields(AdjustmentElements, n),
            alerts : ArrayFields(AlertElements, n)] :
        ArrayLen(b.adjustments) + ArrayLen(b.alerts) <= n}

\* A body that is not a JSON object (malformed text, a top-level array, empty).
UnparsableBody == [parses |-> FALSE, health |-> Absent, adjustments |-> Absent, alerts |-> Absent]

\* What the HTTP module may hand to the completion callback.
Responses(n) ==
    {[bSuccess |-> FALSE, isValid |-> FALSE, body |-> UnparsableBody],
     [bSuccess |-> FALSE, isValid |-> TRUE, body |-> UnparsableBody],
     [bSuccess |-> TRUE, isValid |-> FALSE, body |-> UnparsableBody]}
    \cup {[bSuccess |-> TRUE, isValid |-> TRUE, body |-> b] : b \in Bodies(n) \cup {UnparsableBody}}

NoCall == [req |-> 0, response |-> [bSuccess |-> FALSE, isValid |-> FALSE, body |-> UnparsableBody]]

\* ------------------------------------------------------------- conversions
Abs(n) == IF n < 0 THEN -n ELSE n

RECURSIVE BitLen(_)
BitLen(m) == IF m = 0 THEN 0 ELSE 1 + BitLen(m \div 2)

\* FJsonObject::GetNumberField: the field as a double, 0 when it is missing.
GetNumberField(field) == IF field = Absent THEN 0 ELSE TheValue(field)

\* FJsonObject::GetStringField: the field as a string, empty when it is missing.
GetStringField(field) == IF field = Absent THEN "" ELSE TheValue(field)

\* FJsonObject::GetIntegerField: (int32) of the double, which truncates toward zero.
GetIntegerField(field) ==
    LET d == GetNumberField(field)
    IN  IF d >= 0 THEN d \div 2 ELSE -((-d) \div 2)

\* float Value = <double>: round to a 24-bit significand, ties to even.
ToFloat(d) ==
    LET m == Abs(d)
        bits == BitLen(m)
    IN  IF bits <= 24 THEN d
        ELSE LET ulp == 2 ^ (bits - 24)
                 q == m \div ulp
                 r == m % ulp
                 up == 2 * r > ulp \/ (2 * r = ulp /\ q % 2 = 1)
                 mag == (IF up THEN q + 1 ELSE q) * ulp
             IN  IF d < 0 THEN -mag ELSE mag

\* ------------------------------------------------------------------- state
State ==
    [TickInterval |-> TickInterval, TickCounter |-> TickCounter,
     LastHealth |-> LastHealth, sentTicks |-> sentTicks, pending |-> pending,
     healthInFlight |-> healthInFlight, lastCall |-> lastCall,
     broadcasts |-> broadcasts, healthReq |-> healthReq]

Becomes(s) ==
    /\ TickInterval' = s.TickInterval
    /\ TickCounter' = s.TickCounter
    /\ LastHealth' = s.LastHealth
    /\ sentTicks' = s.sentTicks
    /\ pending' = s.pending
    /\ healthInFlight' = s.healthInFlight
    /\ lastCall' = s.lastCall
    /\ broadcasts' = s.broadcasts
    /\ healthReq' = s.healthReq

StartsAs(s) ==
    /\ TickInterval = s.TickInterval
    /\ TickCounter = s.TickCounter
    /\ LastHealth = s.LastHealth
    /\ sentTicks = s.sentTicks
    /\ pending = s.pending
    /\ healthInFlight = s.healthInFlight
    /\ lastCall = s.lastCall
    /\ broadcasts = s.broadcasts
    /\ healthReq = s.healthReq

\* The state after construction, with TickInterval configured as n.
Constructed(n) ==
    [TickInterval |-> n, TickCounter |-> 0, LastHealth |-> InitialHealth,
     sentTicks |-> <<>>, pending |-> {}, healthInFlight |-> 0,
     lastCall |-> NoCall, broadcasts |-> <<>>, healthReq |-> 0]

\* A slip: the payload is built from LastHealth as well as from TickCounter.
BuildStateJsonWithHealth(s) == s.TickCounter * 1000 + s.LastHealth

\* ---------------------------------------------------------- game-loop side
\* BuildStateJson: the only varying part of the body is "tick": TickCounter.
BuildStateJson(s) == s.TickCounter

\* SendTick: builds the body, creates the request, binds HandleTickResponse, sends it.
SendTick(s) ==
    LET tick == BuildStateJson(s)
    IN  [s EXCEPT !.sentTicks = Append(@, tick), !.pending = @ \cup {tick}]

\* A slip: the interval is tested against the counter before its increment.
TickIsDueBeforeIncrement(counter, interval) == (counter - 1) % interval = 0

\* if (TickCounter % TickInterval == 0)
TickIsDue(counter, interval) == counter % interval = 0

\* OnGameTick: TickCounter++; if due, SendTick().
OnGameTickEffect(s) ==
    LET t == [s EXCEPT !.TickCounter = @ + 1]
    IN  IF TickIsDue(t.TickCounter, t.TickInterval) THEN SendTick(t) ELSE t

OnGameTick ==
    /\ TickCounter < MaxTicks
    /\ Becomes(OnGameTickEffect(State))

\* CheckHealth: sends GET /health; touches no member.
CheckHealthEffect(s) == [s EXCEPT !.healthInFlight = @ + 1]

CheckHealth ==
    /\ healthInFlight < MaxHealthChecks
    /\ Becomes(CheckHealthEffect(State))

\* The completion lambda of CheckHealth: logs the body, touches no member.
HandleHealthResponseEffect(s) == [s EXCEPT !.healthInFlight = @ - 1]

HandleHealthResponse ==
    /\ healthInFlight > 0
    /\ Becomes(HandleHealthResponseEffect(State))

\* ----------------------------------------------------------- callback side
\* if (!bSuccess || !Response.IsValid()) return;
RequestFailed(resp) == ~resp.bSuccess \/ ~resp.isValid

\* A slip: the result of Deserialize is not tested.
ParseNeverFails(resp) == FALSE

\* if (!FJsonSerializer::Deserialize(Reader, JsonObject) || !JsonObject.IsValid()) return;
ParseFailed(resp) == ~resp.body.parses

\* OnAdjustmentReceived.Broadcast(Key, Value); health is what GetLastHealth returns
\* to a listener that calls it from inside the broadcast.
AdjustmentBroadcast(adj, health) ==
    [delegate |-> "OnAdjustmentReceived",
     args |-> <<GetStringField(adj.key), ToFloat(GetNumberField(adj.value))>>,
     health |-> health]

\* OnAlertReceived.Broadcast(Principle, Name, Severity)
AlertBroadcast(alert, health) ==
    [delegate |-> "OnAlertReceived",
     args |-> <<GetStringField(alert.principle), GetStringField(alert.name),
                GetIntegerField(alert.severity)>>,
     health |-> health]

\* A slip: break instead of skip, the loop ends at the first element that is no object.
RECURSIVE ProcessAdjustmentsUntilInvalid(_, _)
ProcessAdjustmentsUntilInvalid(arr, health) ==
    IF arr = <<>> \/ ~Head(arr).isObject THEN <<>>
    ELSE <<AdjustmentBroadcast(Head(arr), health)>>
         \o ProcessAdjustmentsUntilInvalid(Tail(arr), health)

\* for (const auto& AdjValue : *Adjustments) if (AdjValue->AsObject().IsValid()) broadcast
RECURSIVE ProcessAdjustments(_, _)
ProcessAdjustments(arr, health) ==
    IF arr = <<>> THEN <<>>
    ELSE (IF Head(arr).isObject THEN <<AdjustmentBroadcast(Head(arr), health)>> ELSE <<>>)
         \o ProcessAdjustments(Tail(arr), health)

\* A slip: break instead of skip, the loop ends at the first element that is no object.
RECURSIVE ProcessAlertsUntilInvalid(_, _)
ProcessAlertsUntilInvalid(arr, health) ==
    IF arr = <<>> \/ ~Head(arr).isObject THEN <<>>
    ELSE <<AlertBroadcast(Head(arr), health)>>
         \o ProcessAlertsUntilInvalid(Tail(arr), health)

\* for (const auto& AlertValue : *Alerts) if (AlertValue->AsObject().IsValid()) broadcast
RECURSIVE ProcessAlerts(_, _)
ProcessAlerts(arr, health) ==
    IF arr = <<>> THEN <<>>
    ELSE (IF Head(arr).isObject THEN <<AlertBroadcast(Head(arr), health)>> ELSE <<>>)
         \o ProcessAlerts(Tail(arr), health)

\* A slip: LastHealth is assigned after the two loops, so listeners see the old value.
DispatchParsedHealthLast(s, req, body) ==
    LET health == GetIntegerField(body.health)
        adjustments ==
            IF body.adjustments = Absent THEN <<>>
            ELSE ProcessAdjustments(TheValue(body.adjustments), s.LastHealth)
        alerts ==
            IF body.alerts = Absent THEN <<>>
            ELSE ProcessAlerts(TheValue(body.alerts), s.LastHealth)
    IN  [s EXCEPT !.LastHealth = health, !.healthReq = req,
                  !.broadcasts = adjustments \o alerts]

\* A variant that keeps the health of the newest request: a response to an older
\* request than the one LastHealth reflects leaves LastHealth alone.
DispatchParsedNewestOnly(s, req, body) ==
    LET fresh == req > s.healthReq
        health == IF fresh THEN GetIntegerField(body.health) ELSE s.LastHealth
        t == [s EXCEPT !.LastHealth = health, !.healthReq = IF fresh THEN req ELSE @]
        adjustments ==
            IF body.adjustments = Absent THEN <<>>
            ELSE ProcessAdjustments(TheValue(body.adjustments), t.LastHealth)
        alerts ==
            IF body.alerts = Absent THEN <<>>
            ELSE ProcessAlerts(TheValue(body.alerts), t.LastHealth)
    IN  [t EXCEPT !.broadcasts = adjustments \o alerts]

\* The part of HandleTickResponse after the two early returns.
DispatchParsed(s, req, body) ==
    LET health == GetIntegerField(body.health)
        t == [s EXCEPT !.LastHealth = health, !.healthReq = req]
        adjustments ==
            IF body.adjustments = Absent THEN <<>>
            ELSE ProcessAdjustments(TheValue(body.adjustments), t.LastHealth)
        alerts ==
            IF body.alerts = Absent THEN <<>>
            ELSE ProcessAlerts(TheValue(body.alerts), t.LastHealth)
    IN  [t EXCEPT !.broadcasts = adjustments \o alerts]

\* HandleTickResponse, run as the completion callback of request req.
HandleTickResponseEffect(s, req, resp) ==
    LET called == [s EXCEPT !.pending = @ \ {req},
                            !.lastCall = [req |-> req, response |-> resp],
                            !.broadcasts = <<>>]
    IN  IF RequestFailed(resp) THEN called
        ELSE IF ParseFailed(resp) THEN called
        ELSE DispatchParsed(called, req, resp.body)

HandleTickResponseFrom(R) ==
    \E req \in pending, resp \in R :
        Becomes(HandleTickResponseEffect(State, req, resp))

\* The responses Spec draws from, and the wider ones SpecDispatch draws from.
SysResponses == Responses(SysElems)

WideResponses == Responses(MaxElems)

HandleTickResponse == HandleTickResponseFrom(SysResponses)

HandleWideTickResponse == HandleTickResponseFrom(WideResponses)

\* ---------------------------------------------------------- specifications
\* TickInterval is configuration; the component divides by it, so it is
\* configured as a positive number.
Init == \E n \in 1..MaxInterval : StartsAs(Constructed(n))

Next ==
    \/ OnGameTick
    \/ CheckHealth
    \/ HandleHealthResponse
    \/ HandleTickResponse

\* The whole component, every configured interval, small response bodies.
Spec == Init /\ [][Next]_vars

InitDispatch == StartsAs(Constructed(MaxInterval))

NextDispatch ==
    \/ OnGameTick
    \/ HandleWideTickResponse

\* One configured interval, wide response bodies.
SpecDispatch == InitDispatch /\ [][NextDispatch]_vars

\* ------------------------------------------------- vocabulary of the claims
\* The most recent HandleTickResponse call got a successful response whose body
\* parsed as a JSON object.
CallParsed(call) ==
    /\ call.req # 0
    /\ call.response.bSuccess
    /\ call.response.isValid
    /\ call.response.body.parses

\* It got a failed request, a null response or a body that is no JSON object.
CallFailed(call) == call.req # 0 /\ ~CallParsed(call)

\* This step is a call of HandleTickResponse.
HandleStep == lastCall' # lastCall

ArrayOf(field) == IF field = Absent THEN <<>> ELSE TheValue(field)

IsAdjustmentBroadcast(b) == b.delegate = "OnAdjustmentReceived"

IsAlertBroadcast(b) == b.delegate = "OnAlertReceived"

ArgsOf(bs) == [i \in 1..Len(bs) |-> bs[i].args]

AdjustmentArgs == ArgsOf(SelectSeq(broadcasts, IsAdjustmentBroadcast))

AlertArgs == ArgsOf(SelectSeq(broadcasts, IsAlertBroadcast))

IsObject(e) == e.isObject

\* What a broadcast carries for an adjustment element: its key ("" when missing)
\* and its value in single precision (0 when missing).
CarriedAdjustment(e) == <<GetStringField(e.key), ToFloat(GetNumberField(e.value))>>

\* What a broadcast carries for an alert element: principle and name ("" when
\* missing) and severity truncated to an integer (0 when missing).
CarriedAlert(e) ==
    <<GetStringField(e.principle), GetStringField(e.name), GetIntegerField(e.severity)>>

\* ------------------------------------------------------------------ claims
\* C1: after k calls of OnGameTick (TickCounter = k) exactly floor(k / TickInterval)
\* POST /tick requests have been sent, the j-th of them on call j * TickInterval;
\* this holds in every reachable state, so whatever the outcome of earlier
\* requests (failed, unparsable, parsed, not answered yet) none is sent again.
C1_OneRequestPerInterval ==
    /\ Len(sentTicks) = TickCounter \div TickInterval
    /\ \A j \in 1..Len(sentTicks) : sentTicks[j] = j * TickInterval

\* C1 witness: interval 2, four calls, two requests sent; the first one failed
\* and the second has no response yet.
C1_Witness ==
    /\ TickInterval = 2
    /\ TickCounter = 4
    /\ sentTicks = <<2, 4>>
    /\ CallFailed(lastCall)
    /\ lastCall.req = 2
    /\ pending = {4}

\* C2: GetLastHealth always returns a health score in 0..100.
C2_HealthInRange == LastHealth \in 0..100

C8_HealthThenAdjustmentsThenAlerts ==
    CallParsed(lastCall) =>
        LET health == GetIntegerField(lastCall.response.body.health)
        IN  /\ LastHealth = health
            /\ \A i \in 1..Len(broadcasts) : broadcasts[i].health = health
            /\ \A i, j \in 1..Len(broadcasts) :
                   (IsAlertBroadcast(broadcasts[i]) /\ IsAdjustmentBroadcast(broadcasts[j]))
                       => j < i

\* C8 witness: a parsed response that changes the health and yields one
\* broadcast of each kind.
C8_Witness ==
    /\ CallParsed(lastCall)
    /\ LastHealth # InitialHealth
    /\ Len(AdjustmentArgs) = 1
    /\ Len(AlertArgs) = 1

\* C5: a HandleTickResponse call with bSuccess false, a null response or a body
\* that is no JSON object leaves LastHealth, TickCounter, TickInterval and the
\* requests sent unchanged and broadcasts nothing; it only retires its request,
\* so every later OnGameTick call and response meets the state it would have
\* met without the failure.
C5_FailureIgnored ==
    [][(HandleStep /\ CallFailed(lastCall')) =>
          /\ UNCHANGED <<LastHealth, TickCounter, TickInterval, sentTicks,
                         healthInFlight, healthReq>>
          /\ broadcasts' = <<>>
          /\ pending' = pending \ {lastCall'.req}]_vars

\* C5 witness: a failed response handled after an earlier response had set the
\* health to 42, with a later request still outstanding.
C5_Witness ==
    /\ CallFailed(lastCall)
    /\ LastHealth = 42
    /\ healthReq # 0
    /\ healthReq < lastCall.req
    /\ \E r \in pending : r > lastCall.req

\* C6 (commutation): from any state, running OnGameTick and then the callback of
\* an outstanding request gives the state that running the callback and then
\* OnGameTick gives, for every response.
C6_Commute ==
    \A req \in pending, resp \in SysResponses :
        TickCounter < MaxTicks =>
            OnGameTickEffect(HandleTickResponseEffect(State, req, resp))
                = HandleTickResponseEffect(OnGameTickEffect(State), req, resp)

\* C6 (frame): a step that changes TickCounter (OnGameTick) leaves LastHealth and
\* everything the callback writes alone and sends what TickCounter and
\* TickInterval alone decide; a HandleTickResponse call leaves TickCounter,
\* TickInterval and the requests sent alone.
C6_Frame ==
    [][/\ TickCounter' # TickCounter =>
              /\ UNCHANGED <<TickInterval, LastHealth, lastCall, broadcasts, healthReq>>
              /\ TickCounter' = TickCounter + 1
              /\ sentTicks' = IF TickCounter' % TickInterval = 0
                              THEN Append(sentTicks, TickCounter')
                              ELSE sentTicks
       /\ HandleStep => UNCHANGED <<TickCounter, TickInterval, sentTicks>>]_vars

\* C6: the game-loop side and the callback side share no mutable state: the
\* frame conditions hold of every step and the two sides commute.
C6_NoSharedState == []C6_Commute /\ C6_Frame

\* C6 witness: requests 1 and 2 are sent and the callback of request 1 has
\* changed the health; the callback ran before or after the second OnGameTick,
\* and both orders end in this state.
C6_Witness ==
    /\ TickInterval = 1
    /\ sentTicks = <<1, 2>>
    /\ lastCall.req = 1
    /\ CallParsed(lastCall)
    /\ LastHealth = 150
    /\ pending = {2}

\* C7 as claimed: once a response has been parsed LastHealth is the health of
\* the response to the most recently sent request, also when responses arrive
\* out of order: handling the response to a request older than the one
\* LastHealth reflects does not change LastHealth.
C7_NewestSentHealth ==
    [][(HandleStep /\ lastCall'.req < healthReq) => LastHealth' = LastHealth]_vars

\* C7 as amended: GetLastHealth returns 100 until the first tick response is
\* parsed, and thereafter the "health" of the most recently handled parsed
\* response, truncated to an integer (0 when the field is missing), whatever
\* the order the requests were sent in.
C7_LastHandledHealth ==
    /\ [](healthReq = 0 => LastHealth = InitialHealth)
    /\ [][IF HandleStep /\ CallParsed(lastCall')
          THEN LastHealth' = GetIntegerField(lastCall'.response.body.health)
          ELSE LastHealth' = LastHealth]_vars

\* C7 witness: requests 1 and 2 were outstanding together, the response to 2
\* was handled first, and the health is that of the response to 1, handled last.
C7_Witness ==
    /\ sentTicks = <<1, 2>>
    /\ pending = {}
    /\ lastCall.req = 1
    /\ CallParsed(lastCall)
    /\ lastCall.response.body.health = {85}
    /\ LastHealth = 42

====
